---- MODULE Spec2Model ----
(***************************************************************************)
(* The wallet ledger and bet lifecycle of cryptino-backend: the route      *)
(* handlers of src/src/routes/reports.js (bets), src/src/routes/wallet.js  *)
(* (adjust, deposit, withdraw, process-withdrawal) and                     *)
(* src/src/routes/users.js (bonus), as concurrently running handlers over  *)
(* the shared tables wallets, transactions, bets and bonuses.  Every       *)
(* awaited persistence call is one atomic step; the code between two       *)
(* awaits belongs to the step of the call that precedes it.  A persistence *)
(* call either succeeds (ok = TRUE) or returns an error (ok = FALSE).      *)
(***************************************************************************)
EXTENDS Integers, Sequences, FiniteSets, TLC

VARIABLES wallets, transactions, bets, bonuses, now, h

vars == <<wallets, transactions, bets, bonuses, now, h>>

(* ------------------------------- bounds -------------------------------- *)

MaxBal == 2      \* largest initial wallet balance
MaxAmt == 2      \* largest amount (stake, win, withdrawal, bonus) in a request
NBets == 3       \* create-bet calls running at once in SpecBets

\* The handlers of the specification at hand.
Procs == DOMAIN h

(* ------------------------------- actors -------------------------------- *)

Players == {"u1", "u2"}
Admins == {"a1"}
Actors == Players \cup Admins

\* Callers whose token verifies to a user but who are not let in: one
\* without a row in profiles and one whose profile is not active.
Strays == {"ghost", "d1"}

\* verifyToken: the user the bearer token verifies to; none for a caller
\* without a token or with a token that does not verify.
TokenUser(a) == IF a \in Actors \cup Strays THEN a ELSE "none"

\* req.user.role: the role of the auth user returned by auth.getUser, which
\* is the token's role claim and not the role column of the profile.
AuthRole(a) == "authenticated"

\* getUserProfile: the row of profiles for the user.
Profile(a) ==
  IF a \in Actors
    THEN [found |-> TRUE, role |-> IF a \in Admins THEN "admin" ELSE "player",
          is_active |-> TRUE]
    ELSE IF a = "d1" THEN [found |-> TRUE, role |-> "player", is_active |-> FALSE]
    ELSE [found |-> FALSE, role |-> "none", is_active |-> FALSE]

\* authenticate as it would be without the test of profile.is_active.
AuthenticateOld(a) ==
  IF TokenUser(a) = "none" THEN "unauthenticated"
  ELSE IF ~Profile(a).found THEN "unauthenticated"
  ELSE "ok"

\* authenticate: "ok" when next() is called, else the error it responds with.
Authenticate(a) ==
  IF TokenUser(a) = "none" THEN "unauthenticated"
  ELSE IF ~Profile(a).found THEN "unauthenticated"
  ELSE IF ~Profile(a).is_active THEN "deactivated"
  ELSE "ok"

\* The test as it would be if every profile passed it.
RequireAdminOld(a) == Profile(a).found

\* requireAdmin: passes when req.profile.role is admin.
RequireAdmin(a) == Profile(a).role = "admin"

(* ------------------------------- helpers ------------------------------- *)

Abs(x) == IF x < 0 THEN -x ELSE x

\* .eq('user_id', u).eq('currency', c).single(): the one matching row, or no
\* row (0) when none or several match.
WalletsOf(u, c) ==
  {i \in DOMAIN wallets : wallets[i].user = u /\ wallets[i].currency = c}

\* The lookup as it would be without the filter on the user.
SingleWalletOld(u, c) ==
  IF \E i \in DOMAIN wallets : wallets[i].currency = c
    THEN CHOOSE i \in DOMAIN wallets : wallets[i].currency = c
    ELSE 0

SingleWallet(u, c) ==
  IF Cardinality(WalletsOf(u, c)) = 1
    THEN CHOOSE i \in WalletsOf(u, c) : TRUE
    ELSE 0

\* The tables as a value, and the value that stands for no snapshot.
Tables ==
  [wallets |-> wallets, transactions |-> transactions, bets |-> bets,
   bonuses |-> bonuses]

NoTables == [wallets |-> <<>>, transactions |-> <<>>, bets |-> <<>>, bonuses |-> <<>>]

Idle ==
  [op |-> "idle", pc |-> "idle", actor |-> "none", cur |-> "none", amt |-> 0,
   id |-> 0, user |-> "none", sel |-> "none", mult |-> 0, wr |-> 0,
   wid |-> 0, wbal |-> 0, resp |-> "none", wrote |-> FALSE, logged |-> FALSE,
   hash |-> "none", notes |-> <<>>, changed |-> FALSE, over |-> {},
   pre |-> NoTables]

\* The handlers that have taken a request and not yet responded.
InFlight == {q \in Procs : h[q].pc \notin {"idle", "done"}}

\* res.status(..).json(..) or res.json(..): the handler ends with response r.
Respond(p, r) == h' = [h EXCEPT ![p].pc = "done", ![p].resp = r]

\* Handlers are interchangeable: handler p takes a request once the handlers
\* before it have taken theirs.
Free(p) == h[p].pc = "idle" /\ \A q \in Procs : q < p => h[q].pc # "idle"

\* The request enters the route: authenticate, then (admin routes)
\* requireAdmin, then the handler's validation of the body.  pre keeps the
\* tables as the request found them when no other handler was in flight.
Enter(p, req, adminOnly, valid, first) ==
  /\ h[p].pc = "idle"
  /\ h' = [h EXCEPT ![p] =
       LET r == [req EXCEPT !.pre = IF InFlight = {} THEN Tables ELSE NoTables,
                            !.over = InFlight]
       IN  IF Authenticate(req.actor) # "ok"
             THEN [r EXCEPT !.pc = "done", !.resp = Authenticate(req.actor)]
           ELSE IF adminOnly /\ ~RequireAdmin(req.actor)
             THEN [r EXCEPT !.pc = "done", !.resp = "admin_required"]
           ELSE IF ~valid
             THEN [r EXCEPT !.pc = "done", !.resp = "invalid"]
           ELSE [r EXCEPT !.pc = first]]
  /\ UNCHANGED <<wallets, transactions, bets, bonuses, now>>

Tx(u, w, t, a, c, s, ref, rt, n, ad) ==
  [user |-> u, wallet |-> w, type |-> t, amount |-> a, currency |-> c,
   status |-> s, ref |-> ref, reftype |-> rt, notes |-> n, admin |-> ad]

(* --------------------------- POST /bets -------------------------------- *)

\* The refusal as it would be with the comparison turned around.
BetInsufficientOld(bal, stake) == stake < bal

\* wallet.balance < stake: the bet is refused.
BetInsufficient(bal, stake) == bal < stake

\* The debit as it would be with the sign turned around.
BetDebitOld(bal, stake) == bal + stake

\* wallet.balance - stake: the balance written, and the new_balance returned.
BetDebit(bal, stake) == bal - stake

\* The validation as it would be if it refused negative stakes only.
StakeValidOld(stake) == stake >= 0

\* !stake || stake <= 0 is refused; the game_id is given in every request
\* here.
StakeValid(stake) == stake # 0 /\ ~(stake <= 0)

StartBet(p, a, stake, c) ==
  /\ Free(p)
  /\ Enter(p, [Idle EXCEPT !.op = "bet", !.actor = a, !.amt = stake, !.cur = c],
           FALSE, StakeValid(stake), "bet_read")

BetRead(p, ok) ==
  /\ h[p].pc = "bet_read"
  /\ LET w == IF ok THEN SingleWallet(TokenUser(h[p].actor), h[p].cur) ELSE 0
     IN  IF w = 0 THEN Respond(p, "wallet_not_found")
         ELSE IF BetInsufficient(wallets[w].balance, h[p].amt)
           THEN Respond(p, "insufficient")
         ELSE h' = [h EXCEPT ![p].pc = "bet_update", ![p].wid = w,
                             ![p].wbal = wallets[w].balance]
  /\ UNCHANGED <<wallets, transactions, bets, bonuses, now>>

BetUpdate(p, ok) ==
  /\ h[p].pc = "bet_update"
  /\ IF ok
       THEN /\ wallets' = [wallets EXCEPT ![h[p].wid].balance =
                                            BetDebit(h[p].wbal, h[p].amt)]
            /\ h' = [h EXCEPT ![p].pc = "bet_insert", ![p].wrote = TRUE]
       ELSE /\ Respond(p, "failed")
            /\ UNCHANGED wallets
  /\ UNCHANGED <<transactions, bets, bonuses, now>>

BetInsert(p, ok) ==
  /\ h[p].pc = "bet_insert"
  /\ IF ok
       THEN /\ bets' = Append(bets,
                 [user |-> TokenUser(h[p].actor), stake |-> h[p].amt,
                  currency |-> h[p].cur, outcome |-> "pending",
                  win_amount |-> 0, multiplier |-> 0, settled_at |-> 0])
            /\ h' = [h EXCEPT ![p].pc = "bet_tx", ![p].id = Len(bets) + 1]
       ELSE /\ Respond(p, "failed")
            /\ UNCHANGED bets
  /\ UNCHANGED <<wallets, transactions, bonuses, now>>

BetTx(p, ok) ==
  /\ h[p].pc = "bet_tx"
  /\ transactions' =
       IF ok
         THEN Append(transactions,
                Tx(TokenUser(h[p].actor), h[p].wid, "bet", -h[p].amt, h[p].cur,
                   "completed", h[p].id, "bet", <<>>, "none"))
         ELSE transactions
  /\ h' = [h EXCEPT ![p].pc = "done", ![p].resp = "ok", ![p].logged = ok]
  /\ UNCHANGED <<wallets, bets, bonuses, now>>

\* new_balance of the response of a successful call.
BetNewBalance(p) == BetDebit(h[p].wbal, h[p].amt)

(* ----------------------- POST /bets/:id/settle ------------------------- *)

\* bet.user_id !== req.user.id && req.user.role !== 'admin'
SettleForbidden(bet, a) == bet.user # TokenUser(a) /\ AuthRole(a) # "admin"

\* bet.outcome !== 'pending'
SettleConflict(bet) == bet.outcome # "pending"

\* The test as it would be if only a win_amount of 0 skipped the credit.
SettleCreditsOld(win) == win # 0

\* if (win_amount > 0): the winnings are credited.
SettleCredits(win) == win > 0

StartSettle(p, a, b, o, win, m) ==
  /\ Free(p)
  /\ Enter(p, [Idle EXCEPT !.op = "settle", !.actor = a, !.id = b, !.sel = o,
                           !.amt = win, !.mult = m],
           FALSE, TRUE, "settle_read")

SettleRead(p, ok) ==
  /\ h[p].pc = "settle_read"
  /\ IF ~(ok /\ h[p].id \in DOMAIN bets) THEN Respond(p, "not_found")
     ELSE LET bet == bets[h[p].id]
          IN  IF SettleForbidden(bet, h[p].actor) THEN Respond(p, "forbidden")
              ELSE IF SettleConflict(bet) THEN Respond(p, "already_settled")
              ELSE h' = [h EXCEPT ![p].pc = "settle_update",
                                  ![p].user = bet.user, ![p].cur = bet.currency]
  /\ UNCHANGED <<wallets, transactions, bets, bonuses, now>>

\* settled_at: new Date() is the time of the last stamp or a later one.
SettleUpdate(p, ok) ==
  /\ h[p].pc = "settle_update"
  /\ IF ok
       THEN /\ now' \in {now, now + 1}
            /\ bets' = [bets EXCEPT ![h[p].id] =
                 [@ EXCEPT !.outcome = h[p].sel, !.win_amount = h[p].amt,
                           !.multiplier = h[p].mult, !.settled_at = now']]
            /\ IF SettleCredits(h[p].amt)
                 THEN h' = [h EXCEPT ![p].pc = "settle_wread"]
                 ELSE Respond(p, "ok")
       ELSE /\ Respond(p, "failed")
            /\ UNCHANGED <<bets, now>>
  /\ UNCHANGED <<wallets, transactions, bonuses>>

SettleWalletRead(p, ok) ==
  /\ h[p].pc = "settle_wread"
  /\ LET w == IF ok THEN SingleWallet(h[p].user, h[p].cur) ELSE 0
     IN  IF w = 0 THEN Respond(p, "ok")
         ELSE h' = [h EXCEPT ![p].pc = "settle_wupdate", ![p].wid = w,
                             ![p].wbal = wallets[w].balance]
  /\ UNCHANGED <<wallets, transactions, bets, bonuses, now>>

SettleWalletUpdate(p, ok) ==
  /\ h[p].pc = "settle_wupdate"
  /\ wallets' = IF ok
                  THEN [wallets EXCEPT ![h[p].wid].balance = h[p].wbal + h[p].amt]
                  ELSE wallets
  /\ h' = [h EXCEPT ![p].pc = "settle_tx", ![p].wrote = ok]
  /\ UNCHANGED <<transactions, bets, bonuses, now>>

SettleTx(p, ok) ==
  /\ h[p].pc = "settle_tx"
  /\ transactions' =
       IF ok
         THEN Append(transactions,
                Tx(h[p].user, h[p].wid, "win", h[p].amt, h[p].cur, "completed",
                   h[p].id, "bet", <<>>, "none"))
         ELSE transactions
  /\ h' = [h EXCEPT ![p].pc = "done", ![p].resp = "ok", ![p].logged = ok]
  /\ UNCHANGED <<wallets, bets, bonuses, now>>

(* ------------------------ POST /withdraw ------------------------------- *)

\* wallet.balance < amount: the withdrawal is refused.
WithdrawInsufficient(bal, amount) == bal < amount

StartWithdraw(p, a, amount, c, address) ==
  /\ Free(p)
  /\ Enter(p, [Idle EXCEPT !.op = "withdraw", !.actor = a, !.amt = amount, !.cur = c],
           FALSE, amount > 0 /\ address, "wd_read")

WithdrawRead(p, ok) ==
  /\ h[p].pc = "wd_read"
  /\ LET w == IF ok THEN SingleWallet(TokenUser(h[p].actor), h[p].cur) ELSE 0
     IN  IF w = 0 THEN Respond(p, "wallet_not_found")
         ELSE IF WithdrawInsufficient(wallets[w].balance, h[p].amt)
           THEN Respond(p, "insufficient")
         ELSE h' = [h EXCEPT ![p].pc = "wd_update", ![p].wid = w,
                             ![p].wbal = wallets[w].balance]
  /\ UNCHANGED <<wallets, transactions, bets, bonuses, now>>

\* The hold: the result of the update is not looked at.
WithdrawUpdate(p, ok) ==
  /\ h[p].pc = "wd_update"
  /\ wallets' = IF ok
                  THEN [wallets EXCEPT ![h[p].wid].balance = h[p].wbal - h[p].amt]
                  ELSE wallets
  /\ h' = [h EXCEPT ![p].pc = "wd_tx", ![p].wrote = ok]
  /\ UNCHANGED <<transactions, bets, bonuses, now>>

WithdrawTx(p, ok) ==
  /\ h[p].pc = "wd_tx"
  /\ IF ok
       THEN /\ transactions' = Append(transactions,
                 Tx(TokenUser(h[p].actor), h[p].wid, "withdrawal", -h[p].amt,
                    h[p].cur, "pending", 0, "none", <<"withdrawal">>, "none"))
            /\ h' = [h EXCEPT ![p].pc = "done", ![p].resp = "ok",
                              ![p].id = Len(transactions) + 1, ![p].logged = TRUE]
       ELSE /\ Respond(p, "failed")
            /\ UNCHANGED transactions
  /\ UNCHANGED <<wallets, bets, bonuses, now>>

(* ---------------- POST /admin/process-withdrawal/:id ------------------- *)

\* The lookup as it would be without the filter on the type.
PendingWithdrawalOld(t) ==
  /\ t \in DOMAIN transactions
  /\ transactions[t].status = "pending"

\* .eq('id', id).eq('type', 'withdrawal').eq('status', 'pending').single()
PendingWithdrawal(t) ==
  /\ t \in DOMAIN transactions
  /\ transactions[t].type = "withdrawal"
  /\ transactions[t].status = "pending"

StartProcess(p, a, t, action, txHash) ==
  /\ Free(p)
  /\ Enter(p, [Idle EXCEPT !.op = "process", !.actor = a, !.id = t, !.sel = action,
                           !.hash = txHash],
           TRUE, action \in {"approve", "reject"}, "pr_read")

ProcessRead(p, ok) ==
  /\ h[p].pc = "pr_read"
  /\ IF ~(ok /\ PendingWithdrawal(h[p].id)) THEN Respond(p, "not_found")
     ELSE h' = [h EXCEPT ![p].pc = IF h[p].sel = "approve" THEN "pr_approve"
                                                            ELSE "pr_wread",
                         ![p].wid = transactions[h[p].id].wallet,
                         ![p].amt = transactions[h[p].id].amount,
                         ![p].notes = transactions[h[p].id].notes]
  /\ UNCHANGED <<wallets, transactions, bets, bonuses, now>>

\* transaction.notes + (txHash ? ` | TX: ${txHash}` : '')
ApprovedNotes(notes, txHash) ==
  IF txHash = "none" THEN notes ELSE notes \o <<"TX", txHash>>

\* Mark as completed: update by id alone, result not looked at.
ProcessApprove(p, ok) ==
  /\ h[p].pc = "pr_approve"
  /\ transactions' =
       IF ok
         THEN [transactions EXCEPT ![h[p].id] =
                 [@ EXCEPT !.status = "completed",
                           !.notes = ApprovedNotes(h[p].notes, h[p].hash),
                           !.admin = TokenUser(h[p].actor)]]
         ELSE transactions
  /\ h' = [h EXCEPT ![p].pc = "done", ![p].resp = "ok", ![p].logged = ok,
                    ![p].changed = transactions' # transactions]
  /\ UNCHANGED <<wallets, bets, bonuses, now>>

\* The step as it would be if the handler returned without a response when
\* the wallet is not found.
ProcessWalletReadOld(p, ok) ==
  /\ h[p].pc = "pr_wread"
  /\ IF ok /\ h[p].wid \in DOMAIN wallets
       THEN h' = [h EXCEPT ![p].pc = "pr_wupdate",
                           ![p].wbal = wallets[h[p].wid].balance]
       ELSE h' = [h EXCEPT ![p].pc = "done"]
  /\ UNCHANGED <<wallets, transactions, bets, bonuses, now>>

ProcessWalletRead(p, ok) ==
  /\ h[p].pc = "pr_wread"
  /\ IF ok /\ h[p].wid \in DOMAIN wallets
       THEN h' = [h EXCEPT ![p].pc = "pr_wupdate",
                           ![p].wbal = wallets[h[p].wid].balance]
       ELSE h' = [h EXCEPT ![p].pc = "pr_reject"]
  /\ UNCHANGED <<wallets, transactions, bets, bonuses, now>>

\* The refund: wallet.balance + Math.abs(transaction.amount).
ProcessWalletUpdate(p, ok) ==
  /\ h[p].pc = "pr_wupdate"
  /\ wallets' = IF ok
                  THEN [wallets EXCEPT ![h[p].wid].balance = h[p].wbal + Abs(h[p].amt)]
                  ELSE wallets
  /\ h' = [h EXCEPT ![p].pc = "pr_reject", ![p].wrote = ok,
                    ![p].changed = wallets' # wallets]
  /\ UNCHANGED <<transactions, bets, bonuses, now>>

ProcessReject(p, ok) ==
  /\ h[p].pc = "pr_reject"
  /\ transactions' =
       IF ok
         THEN [transactions EXCEPT ![h[p].id] =
                 [@ EXCEPT !.status = "rejected", !.admin = TokenUser(h[p].actor)]]
         ELSE transactions
  /\ h' = [h EXCEPT ![p].pc = "done", ![p].resp = "ok", ![p].logged = ok,
                    ![p].changed = @ \/ transactions' # transactions]
  /\ UNCHANGED <<wallets, bets, bonuses, now>>

(* ------------------------ POST /:id/adjust ----------------------------- *)

\* The refusal as it would be if it looked at the balance read instead of
\* the balance to be written.
AdjustRefusedOld(bal, amount) == bal < 0

\* newBalance < 0: the adjustment is refused.
AdjustRefused(bal, amount) == bal + amount < 0

\* The values of the body's type field: absent (the default) or given.
AdjustTypes == {"adjustment", "bonus"}

\* The values of the body's reason field: empty or not.
Reasons == {"", "reason"}

\* The validation as it would be without the test of the reason.
AdjustValidOld(reason) == TRUE

\* if (!reason) return 400; the amount is a number in every request here.
AdjustValid(reason) == reason # ""

StartAdjust(p, a, w, amount, reason, type) ==
  /\ Free(p)
  /\ Enter(p, [Idle EXCEPT !.op = "adjust", !.actor = a, !.id = w, !.amt = amount,
                           !.sel = type, !.notes = <<reason>>],
           TRUE, AdjustValid(reason), "ad_read")

AdjustRead(p, ok) ==
  /\ h[p].pc = "ad_read"
  /\ IF ~(ok /\ h[p].id \in DOMAIN wallets) THEN Respond(p, "wallet_not_found")
     ELSE IF AdjustRefused(wallets[h[p].id].balance, h[p].amt)
       THEN Respond(p, "insufficient")
     ELSE h' = [h EXCEPT ![p].pc = "ad_update", ![p].wid = h[p].id,
                         ![p].wbal = wallets[h[p].id].balance,
                         ![p].user = wallets[h[p].id].user,
                         ![p].cur = wallets[h[p].id].currency]
  /\ UNCHANGED <<wallets, transactions, bets, bonuses, now>>

AdjustUpdate(p, ok) ==
  /\ h[p].pc = "ad_update"
  /\ IF ok
       THEN /\ wallets' = [wallets EXCEPT ![h[p].wid].balance = h[p].wbal + h[p].amt]
            /\ h' = [h EXCEPT ![p].pc = "ad_tx", ![p].wrote = TRUE]
       ELSE /\ Respond(p, "failed")
            /\ UNCHANGED wallets
  /\ UNCHANGED <<transactions, bets, bonuses, now>>

AdjustTx(p, ok) ==
  /\ h[p].pc = "ad_tx"
  /\ transactions' =
       IF ok
         THEN Append(transactions,
                Tx(h[p].user, h[p].wid, h[p].sel, h[p].amt, h[p].cur, "completed",
                   0, "none", h[p].notes, TokenUser(h[p].actor)))
         ELSE transactions
  /\ h' = [h EXCEPT ![p].pc = "done", ![p].resp = "ok", ![p].logged = ok]
  /\ UNCHANGED <<wallets, bets, bonuses, now>>

(* -------------------------- POST /deposit ------------------------------ *)

StartDeposit(p, a, amount, c) ==
  /\ Free(p)
  /\ Enter(p, [Idle EXCEPT !.op = "deposit", !.actor = a, !.amt = amount, !.cur = c],
           FALSE, amount > 0, "dp_read")

DepositRead(p, ok) ==
  /\ h[p].pc = "dp_read"
  /\ LET w == IF ok THEN SingleWallet(TokenUser(h[p].actor), h[p].cur) ELSE 0
     IN  IF w = 0 THEN h' = [h EXCEPT ![p].pc = "dp_winsert"]
         ELSE h' = [h EXCEPT ![p].pc = "dp_tx", ![p].wid = w,
                             ![p].wbal = wallets[w].balance]
  /\ UNCHANGED <<wallets, transactions, bets, bonuses, now>>

DepositWalletInsert(p, ok) ==
  /\ h[p].pc = "dp_winsert"
  /\ IF ok
       THEN /\ wallets' = Append(wallets,
                 [user |-> TokenUser(h[p].actor), currency |-> h[p].cur, balance |-> 0])
            /\ h' = [h EXCEPT ![p].pc = "dp_tx", ![p].wid = Len(wallets) + 1,
                              ![p].wbal = 0]
       ELSE /\ Respond(p, "failed")
            /\ UNCHANGED wallets
  /\ UNCHANGED <<transactions, bets, bonuses, now>>

DepositTx(p, ok) ==
  /\ h[p].pc = "dp_tx"
  /\ IF ok
       THEN /\ transactions' = Append(transactions,
                 Tx(TokenUser(h[p].actor), h[p].wid, "deposit", h[p].amt, h[p].cur,
                    "pending", 0, "none", <<"deposit">>, "none"))
            /\ h' = [h EXCEPT ![p].pc = "done", ![p].resp = "ok",
                              ![p].id = Len(transactions) + 1]
       ELSE /\ Respond(p, "failed")
            /\ UNCHANGED transactions
  /\ UNCHANGED <<wallets, bets, bonuses, now>>

(* ------------------------- POST /:id/bonus ----------------------------- *)

\* status: wagering_requirement > 0 ? 'pending' : 'claimed'
BonusStatus(wr) == IF wr > 0 THEN "pending" ELSE "claimed"

\* wagering_requirement === 0: credit immediately.
BonusCredits(wr) == wr = 0

StartBonus(p, a, u, amount, c, wr) ==
  /\ Free(p)
  /\ Enter(p, [Idle EXCEPT !.op = "bonus", !.actor = a, !.user = u, !.amt = amount,
                           !.cur = c, !.wr = wr],
           TRUE, amount > 0, "bn_read")

BonusRead(p, ok) ==
  /\ h[p].pc = "bn_read"
  /\ LET w == IF ok THEN SingleWallet(h[p].user, h[p].cur) ELSE 0
     IN  IF w = 0 THEN h' = [h EXCEPT ![p].pc = "bn_winsert"]
         ELSE h' = [h EXCEPT ![p].pc = "bn_insert", ![p].wid = w,
                             ![p].wbal = wallets[w].balance]
  /\ UNCHANGED <<wallets, transactions, bets, bonuses, now>>

BonusWalletInsert(p, ok) ==
  /\ h[p].pc = "bn_winsert"
  /\ IF ok
       THEN /\ wallets' = Append(wallets,
                 [user |-> h[p].user, currency |-> h[p].cur, balance |-> 0])
            /\ h' = [h EXCEPT ![p].pc = "bn_insert", ![p].wid = Len(wallets) + 1,
                              ![p].wbal = 0]
       ELSE /\ Respond(p, "failed")
            /\ UNCHANGED wallets
  /\ UNCHANGED <<transactions, bets, bonuses, now>>

\* The id as it would be if the row before the inserted one were returned.
BonusIdOld(n) == n

\* bonus.id of the row returned by the insert, the table holding n rows.
BonusId(n) == n + 1

BonusInsert(p, ok) ==
  /\ h[p].pc = "bn_insert"
  /\ IF ok
       THEN /\ bonuses' = Append(bonuses,
                 [user |-> h[p].user, amount |-> h[p].amt, currency |-> h[p].cur,
                  wagering_requirement |-> h[p].wr, wagering_progress |-> 0,
                  status |-> BonusStatus(h[p].wr)])
            /\ IF BonusCredits(h[p].wr)
                 THEN h' = [h EXCEPT ![p].pc = "bn_wupdate",
                                    ![p].id = BonusId(Len(bonuses))]
                 ELSE h' = [h EXCEPT ![p].pc = "done", ![p].resp = "ok",
                                    ![p].id = BonusId(Len(bonuses))]
       ELSE /\ Respond(p, "failed")
            /\ UNCHANGED bonuses
  /\ UNCHANGED <<wallets, transactions, bets, now>>

BonusWalletUpdate(p, ok) ==
  /\ h[p].pc = "bn_wupdate"
  /\ wallets' = IF ok
                  THEN [wallets EXCEPT ![h[p].wid].balance = h[p].wbal + h[p].amt]
                  ELSE wallets
  /\ h' = [h EXCEPT ![p].pc = "bn_tx", ![p].wrote = ok]
  /\ UNCHANGED <<transactions, bets, bonuses, now>>

BonusTx(p, ok) ==
  /\ h[p].pc = "bn_tx"
  /\ transactions' =
       IF ok
         THEN Append(transactions,
                Tx(h[p].user, h[p].wid, "bonus", h[p].amt, h[p].cur, "completed",
                   h[p].id, "bonus", <<"reason">>, TokenUser(h[p].actor)))
         ELSE transactions
  /\ h' = [h EXCEPT ![p].pc = "done", ![p].resp = "ok", ![p].logged = ok]
  /\ UNCHANGED <<wallets, bets, bonuses, now>>

(* --------------------------- specifications ---------------------------- *)

Outcomes == {"pending", "win", "loss"}

Steps(p, ok) ==
  \/ BetRead(p, ok) \/ BetUpdate(p, ok) \/ BetInsert(p, ok) \/ BetTx(p, ok)
  \/ SettleRead(p, ok) \/ SettleUpdate(p, ok) \/ SettleWalletRead(p, ok)
  \/ SettleWalletUpdate(p, ok) \/ SettleTx(p, ok)
  \/ WithdrawRead(p, ok) \/ WithdrawUpdate(p, ok) \/ WithdrawTx(p, ok)
  \/ ProcessRead(p, ok) \/ ProcessApprove(p, ok) \/ ProcessWalletRead(p, ok)
  \/ ProcessWalletUpdate(p, ok) \/ ProcessReject(p, ok)
  \/ AdjustRead(p, ok) \/ AdjustUpdate(p, ok) \/ AdjustTx(p, ok)
  \/ BonusRead(p, ok) \/ BonusWalletInsert(p, ok) \/ BonusInsert(p, ok)
  \/ BonusWalletUpdate(p, ok) \/ BonusTx(p, ok)

\* The tables after u1 requested a deposit of 1 (which created the wallet),
\* a1 adjusted the wallet by b + 2, and u1 placed a bet of stake 1 and
\* requested a withdrawal of 1, one call after the other.
InitTables(b) ==
  /\ wallets = <<[user |-> "u1", currency |-> "USD", balance |-> b]>>
  /\ transactions =
       <<Tx("u1", 1, "deposit", 1, "USD", "pending", 0, "none", <<"deposit">>, "none"),
         Tx("u1", 1, "adjustment", b + 2, "USD", "completed", 0, "none", <<"reason">>, "a1"),
         Tx("u1", 1, "bet", -1, "USD", "completed", 1, "bet", <<>>, "none"),
         Tx("u1", 1, "withdrawal", -1, "USD", "pending", 0, "none", <<"withdrawal">>, "none")>>
  /\ bets = <<[user |-> "u1", stake |-> 1, currency |-> "USD", outcome |-> "pending",
               win_amount |-> 0, multiplier |-> 0, settled_at |-> 0]>>
  /\ bonuses = <<>>
  /\ now = 1

\* The balance of wallet 1 in the initial state, as the ledger of Init has it.
Balance0 == transactions[2].amount - 2

(* Spec: two handlers, each serving one request of any of the six          *)
(* money-moving operations on the tables of InitTables; every persistence  *)
(* call may fail.                                                          *)

Pair == {1, 2}

Init ==
  /\ \E b \in 0..MaxBal : InitTables(b)
  /\ h = [p \in Pair |-> Idle]

Requests(p) ==
  \/ \E s \in 1..MaxAmt : StartBet(p, "u1", s, "USD")
  \/ \E o \in Outcomes, w \in 0..MaxAmt : StartSettle(p, "u1", 1, o, w, 1)
  \/ \E x \in 1..MaxAmt : StartWithdraw(p, "u1", x, "USD", TRUE)
  \/ \E act \in {"approve", "reject"} : StartProcess(p, "a1", 4, act, "none")
  \/ \E x \in (-MaxAmt)..MaxAmt : StartAdjust(p, "a1", 1, x, "reason", "adjustment")
  \/ \E x \in 1..MaxAmt, wr \in 0..1 : StartBonus(p, "a1", "u1", x, "USD", wr)

Next == \E p \in Pair : Requests(p) \/ \E ok \in BOOLEAN : Steps(p, ok)

Spec == Init /\ [][Next]_vars

(* SpecBets: NBets create-bet calls of u1, all with the same stake, on a   *)
(* wallet of balance 0..MaxBal; no persistence call fails.                 *)

InitBets ==
  /\ \E b \in 0..MaxBal :
       /\ wallets = <<[user |-> "u1", currency |-> "USD", balance |-> b]>>
       /\ transactions =
            <<Tx("u1", 1, "deposit", 1, "USD", "pending", 0, "none", <<"deposit">>, "none"),
              Tx("u1", 1, "adjustment", b, "USD", "completed", 0, "none", <<"reason">>, "a1")>>
  /\ bets = <<>>
  /\ bonuses = <<>>
  /\ now = 1
  /\ h = [p \in 1..NBets |-> Idle]

\* The next of the calls, with the stake of the calls before it.
StartSameBet(p, s) ==
  /\ \A q \in Procs : h[q].op = "bet" => h[q].amt = s
  /\ StartBet(p, "u1", s, "USD")

NextBets ==
  \E p \in 1..NBets :
    \/ \E s \in 1..MaxAmt : StartSameBet(p, s)
    \/ BetRead(p, TRUE) \/ BetUpdate(p, TRUE) \/ BetInsert(p, TRUE) \/ BetTx(p, TRUE)

SpecBets == InitBets /\ [][NextBets]_vars

(* SpecSettle: two settle calls of the owner on the pending bet 1, each    *)
(* reporting a win or a loss; no persistence call fails.                   *)

NextSettle ==
  \E p \in Pair :
    \/ \E o \in {"win", "loss"}, w \in 0..MaxAmt : StartSettle(p, "u1", 1, o, w, 1)
    \/ SettleRead(p, TRUE) \/ SettleUpdate(p, TRUE) \/ SettleWalletRead(p, TRUE)
    \/ SettleWalletUpdate(p, TRUE) \/ SettleTx(p, TRUE)

SpecSettle == Init /\ [][NextSettle]_vars

(* SpecProcess: two process calls of the administrator on the pending      *)
(* withdrawal 4; no persistence call fails.                                *)

NextProcess ==
  \E p \in Pair :
    \/ \E act \in {"approve", "reject"}, x \in {"none", "0xab"} :
         StartProcess(p, "a1", 4, act, x)
    \/ ProcessRead(p, TRUE) \/ ProcessApprove(p, TRUE) \/ ProcessWalletRead(p, TRUE)
    \/ ProcessWalletUpdate(p, TRUE) \/ ProcessReject(p, TRUE)

SpecProcess == Init /\ [][NextProcess]_vars

(* SpecResettle: two settle calls of the owner on bet 1 with any outcome   *)
(* the handler accepts; no persistence call fails.                         *)

NextResettle ==
  \E p \in Pair :
    \/ \E o \in Outcomes, w \in 0..MaxAmt : StartSettle(p, "u1", 1, o, w, 1)
    \/ SettleRead(p, TRUE) \/ SettleUpdate(p, TRUE) \/ SettleWalletRead(p, TRUE)
    \/ SettleWalletUpdate(p, TRUE) \/ SettleTx(p, TRUE)

SpecResettle == Init /\ [][NextResettle]_vars

(* SpecCalls: two handlers, each serving one request of any of the seven   *)
(* operations, by the owner of wallet 1, by a player without a wallet or   *)
(* by the administrator; every persistence call succeeds.                  *)

RequestsCalls(p) ==
  \/ \E a \in Players, s \in 1..MaxAmt : StartBet(p, a, s, "USD")
  \/ \E a \in Actors, o \in {"win", "loss"}, w \in 0..MaxAmt :
       StartSettle(p, a, 1, o, w, 1)
  \/ \E x \in 1..MaxAmt : StartWithdraw(p, "u1", x, "USD", TRUE)
  \/ \E t \in {1, 3, 4, 5}, act \in {"approve", "reject"} :
       StartProcess(p, "a1", t, act, "none")
  \/ \E x \in (-MaxAmt)..MaxAmt : StartAdjust(p, "a1", 1, x, "reason", "adjustment")
  \/ \E u \in Players, x \in 1..MaxAmt, wr \in 0..1 :
       StartBonus(p, "a1", u, x, "USD", wr)
  \/ \E a \in Players, x \in 1..MaxAmt : StartDeposit(p, a, x, "USD")

NextCalls ==
  \E p \in Pair :
    \/ RequestsCalls(p)
    \/ Steps(p, TRUE)
    \/ DepositRead(p, TRUE) \/ DepositWalletInsert(p, TRUE) \/ DepositTx(p, TRUE)

SpecCalls == Init /\ [][NextCalls]_vars

(* SpecDeposit: two deposit requests, of the owner of wallet 1 or of a     *)
(* player without a wallet; every persistence call succeeds.               *)

NextDeposit ==
  \E p \in Pair :
    \/ \E a \in Players, x \in 1..MaxAmt : StartDeposit(p, a, x, "USD")
    \/ DepositRead(p, TRUE) \/ DepositWalletInsert(p, TRUE) \/ DepositTx(p, TRUE)

SpecDeposit == Init /\ [][NextDeposit]_vars

(* SpecOrphan: from empty tables, five requests taken in this order: two   *)
(* deposits of 1 by u1, an adjustment of wallet 1, a bet of u1 and a       *)
(* settle of bet 1 by u1; the handlers run concurrently and every          *)
(* persistence call succeeds.                                              *)

Crew == 1..5

InitOrphan ==
  /\ wallets = <<>>
  /\ transactions = <<>>
  /\ bets = <<>>
  /\ bonuses = <<>>
  /\ now = 1
  /\ h = [p \in Crew |-> Idle]

StartOrphan(p) ==
  IF p <= 2 THEN StartDeposit(p, "u1", 1, "USD")
  ELSE IF p = 3 THEN \E x \in 1..MaxAmt : StartAdjust(p, "a1", 1, x, "reason", "adjustment")
  ELSE IF p = 4 THEN StartBet(p, "u1", 1, "USD")
  ELSE \E w \in 1..MaxAmt : StartSettle(p, "u1", 1, "win", w, 1)

NextOrphan ==
  \E p \in Crew :
    \/ StartOrphan(p)
    \/ DepositRead(p, TRUE) \/ DepositWalletInsert(p, TRUE) \/ DepositTx(p, TRUE)
    \/ AdjustRead(p, TRUE) \/ AdjustUpdate(p, TRUE) \/ AdjustTx(p, TRUE)
    \/ BetRead(p, TRUE) \/ BetUpdate(p, TRUE) \/ BetInsert(p, TRUE) \/ BetTx(p, TRUE)
    \/ SettleRead(p, TRUE) \/ SettleUpdate(p, TRUE) \/ SettleWalletRead(p, TRUE)
    \/ SettleWalletUpdate(p, TRUE) \/ SettleTx(p, TRUE)

SpecOrphan == InitOrphan /\ [][NextOrphan]_vars

(* SpecOutcome: two settle calls of the owner on bet 1 whose body carries   *)
(* any outcome, one that is no outcome of a bet included; every persistence *)
(* call succeeds.                                                          *)

BodyOutcomes == Outcomes \cup {"draw"}

NextOutcome ==
  \E p \in Pair :
    \/ \E o \in BodyOutcomes, w \in 0..MaxAmt : StartSettle(p, "u1", 1, o, w, 1)
    \/ SettleRead(p, TRUE) \/ SettleUpdate(p, TRUE) \/ SettleWalletRead(p, TRUE)
    \/ SettleWalletUpdate(p, TRUE) \/ SettleTx(p, TRUE)

SpecOutcome == Init /\ [][NextOutcome]_vars

(* SpecAmounts: two requests of the four operations that take a positive   *)
(* amount, with amounts from -1 up; every persistence call succeeds.       *)

Amounts == (-1)..MaxAmt

NextAmounts ==
  \E p \in Pair :
    \/ \E x \in Amounts : StartBet(p, "u1", x, "USD")
    \/ \E x \in Amounts : StartWithdraw(p, "u1", x, "USD", TRUE)
    \/ \E a \in Players, x \in Amounts : StartDeposit(p, a, x, "USD")
    \/ \E u \in Players, x \in Amounts, wr \in 0..1 :
         StartBonus(p, "a1", u, x, "USD", wr)
    \/ BetRead(p, TRUE) \/ BetUpdate(p, TRUE) \/ BetInsert(p, TRUE) \/ BetTx(p, TRUE)
    \/ WithdrawRead(p, TRUE) \/ WithdrawUpdate(p, TRUE) \/ WithdrawTx(p, TRUE)
    \/ DepositRead(p, TRUE) \/ DepositWalletInsert(p, TRUE) \/ DepositTx(p, TRUE)
    \/ BonusRead(p, TRUE) \/ BonusWalletInsert(p, TRUE) \/ BonusInsert(p, TRUE)
    \/ BonusWalletUpdate(p, TRUE) \/ BonusTx(p, TRUE)

SpecAmounts == Init /\ [][NextAmounts]_vars

(* SpecSerial: three requests of any of the seven operations served one    *)
(* at a time: a handler takes its request when no other is in flight;      *)
(* every persistence call succeeds.                                        *)

Trio == 1..3

InitSerial ==
  /\ \E b \in 0..MaxBal : InitTables(b)
  /\ h = [p \in Trio |-> Idle]

RequestsSerial(p) ==
  \/ \E s \in 1..MaxAmt : StartBet(p, "u1", s, "USD")
  \/ \E w \in 0..MaxAmt :
       StartSettle(p, "u1", 1, IF w > 0 THEN "win" ELSE "loss", w, 1)
  \/ \E x \in 1..MaxAmt : StartWithdraw(p, "u1", x, "USD", TRUE)
  \/ \E t \in {4, 5}, act \in {"approve", "reject"} :
       StartProcess(p, "a1", t, act, "none")
  \/ \E x \in {-1, 1} : StartAdjust(p, "a1", 1, x, "reason", "adjustment")
  \/ \E u \in Players, wr \in 0..1 : StartBonus(p, "a1", u, 1, "USD", wr)
  \/ \E a \in Players : StartDeposit(p, a, 1, "USD")

StartSerial(p) ==
  /\ InFlight = {}
  /\ RequestsSerial(p)

NextSerial ==
  \E p \in Trio :
    \/ StartSerial(p)
    \/ Steps(p, TRUE)
    \/ DepositRead(p, TRUE) \/ DepositWalletInsert(p, TRUE) \/ DepositTx(p, TRUE)

SpecSerial == InitSerial /\ [][NextSerial]_vars

(* SpecLoss: two settle calls of the owner on the pending bet 1 reporting   *)
(* a win or a loss with a win_amount from -1 up; every persistence call    *)
(* may fail.                                                               *)

NextLoss ==
  \E p \in Pair :
    \/ \E o \in {"win", "loss"}, w \in (-1)..MaxAmt : StartSettle(p, "u1", 1, o, w, 1)
    \/ \E ok \in BOOLEAN :
         \/ SettleRead(p, ok) \/ SettleUpdate(p, ok) \/ SettleWalletRead(p, ok)
         \/ SettleWalletUpdate(p, ok) \/ SettleTx(p, ok)

SpecLoss == Init /\ [][NextLoss]_vars

(* SpecWager: two bonus grants of the administrator to a player with a     *)
(* wagering_requirement that is negative, 0 or positive; every persistence *)
(* call succeeds.                                                          *)

Wagers == (-1)..1

NextWager ==
  \E p \in Pair :
    \/ \E u \in Players, x \in 1..MaxAmt, wr \in Wagers :
         StartBonus(p, "a1", u, x, "USD", wr)
    \/ BonusRead(p, TRUE) \/ BonusWalletInsert(p, TRUE) \/ BonusInsert(p, TRUE)
    \/ BonusWalletUpdate(p, TRUE) \/ BonusTx(p, TRUE)

SpecWager == Init /\ [][NextWager]_vars

(* SpecFunding: two requests, each a deposit request of a player or the    *)
(* processing of the pending deposit 1 or of the pending withdrawal 4 by   *)
(* the administrator; every persistence call may fail.                     *)

NextFunding ==
  \E p \in Pair :
    \/ \E a \in Players, x \in 1..MaxAmt : StartDeposit(p, a, x, "USD")
    \/ \E t \in {1, 4}, act \in {"approve", "reject"} :
         StartProcess(p, "a1", t, act, "none")
    \/ \E ok \in BOOLEAN :
         \/ DepositRead(p, ok) \/ DepositWalletInsert(p, ok) \/ DepositTx(p, ok)
         \/ ProcessRead(p, ok) \/ ProcessApprove(p, ok) \/ ProcessWalletRead(p, ok)
         \/ ProcessWalletUpdate(p, ok) \/ ProcessReject(p, ok)

SpecFunding == Init /\ [][NextFunding]_vars

(* SpecLive: two requests of the six operations with amounts of 1; every   *)
(* persistence call returns, with data or with an error, so a handler that *)
(* can take a step eventually takes one.                                   *)

RequestsLive(p) ==
  \/ StartBet(p, "u1", 1, "USD")
  \/ \E w \in 0..1 : StartSettle(p, "u1", 1, IF w > 0 THEN "win" ELSE "loss", w, 1)
  \/ StartWithdraw(p, "u1", 1, "USD", TRUE)
  \/ \E act \in {"approve", "reject"} : StartProcess(p, "a1", 4, act, "none")
  \/ \E x \in {-1, 1} : StartAdjust(p, "a1", 1, x, "reason", "adjustment")
  \/ \E wr \in 0..1 : StartBonus(p, "a1", "u1", 1, "USD", wr)

Returns(p) == \E ok \in BOOLEAN : Steps(p, ok)

NextLive == \E p \in Pair : RequestsLive(p) \/ Returns(p)

SpecLive == Init /\ [][NextLive]_vars /\ \A p \in Pair : WF_vars(Returns(p))

(* SpecAuth: two requests of the seven operations with amounts of 1, by    *)
(* any caller: a player, the administrator, one without a token ("anon"),  *)
(* one with a token that does not verify ("bad"), one without a profile    *)
(* and one whose profile is not active; every persistence call succeeds.   *)

Everyone == Actors \cup Strays \cup {"anon", "bad"}

RequestsAuth(p) ==
  \E a \in Everyone :
    \/ StartBet(p, a, 1, "USD")
    \/ \E w \in 0..1 : StartSettle(p, a, 1, IF w > 0 THEN "win" ELSE "loss", w, 1)
    \/ StartWithdraw(p, a, 1, "USD", TRUE)
    \/ \E act \in {"approve", "reject"} : StartProcess(p, a, 4, act, "none")
    \/ \E x \in {-1, 1} : StartAdjust(p, a, 1, x, "reason", "adjustment")
    \/ \E u \in Players : StartBonus(p, a, u, 1, "USD", 0)
    \/ StartDeposit(p, a, 1, "USD")

NextAuth ==
  \E p \in Pair :
    \/ RequestsAuth(p)
    \/ Steps(p, TRUE)
    \/ DepositRead(p, TRUE) \/ DepositWalletInsert(p, TRUE) \/ DepositTx(p, TRUE)

SpecAuth == Init /\ [][NextAuth]_vars

(* SpecAdjust: two adjustment requests of the administrator on wallet 1,   *)
(* with any amount, with or without a reason and with either type; every   *)
(* persistence call succeeds.                                              *)

NextAdjust ==
  \E p \in Pair :
    \/ \E x \in (-MaxAmt)..MaxAmt, r \in Reasons, t \in AdjustTypes :
         StartAdjust(p, "a1", 1, x, r, t)
    \/ AdjustRead(p, TRUE) \/ AdjustUpdate(p, TRUE) \/ AdjustTx(p, TRUE)

SpecAdjust == Init /\ [][NextAdjust]_vars

(* SpecAdmin: two requests of the administrator-only operations, by any    *)
(* caller: a player, the administrator, or one without a valid token;      *)
(* every persistence call succeeds.                                        *)

Callers == Actors \cup {"anon"}

NextAdmin ==
  \E p \in Pair :
    \/ \E a \in Callers, act \in {"approve", "reject"} :
         StartProcess(p, a, 4, act, "none")
    \/ \E a \in Callers, x \in (-MaxAmt)..MaxAmt :
         StartAdjust(p, a, 1, x, "reason", "adjustment")
    \/ \E a \in Callers, x \in 1..MaxAmt, wr \in 0..1 :
         StartBonus(p, a, "u1", x, "USD", wr)
    \/ ProcessRead(p, TRUE) \/ ProcessApprove(p, TRUE) \/ ProcessWalletRead(p, TRUE)
    \/ ProcessWalletUpdate(p, TRUE) \/ ProcessReject(p, TRUE)
    \/ AdjustRead(p, TRUE) \/ AdjustUpdate(p, TRUE) \/ AdjustTx(p, TRUE)
    \/ BonusRead(p, TRUE) \/ BonusInsert(p, TRUE) \/ BonusWalletUpdate(p, TRUE)
    \/ BonusTx(p, TRUE)

SpecAdmin == Init /\ [][NextAdmin]_vars

(* ------------------------------- claims -------------------------------- *)

Done(p) == h[p].pc = "done"
Ok(p) == Done(p) /\ h[p].resp = "ok"

\* Handlers p and q ran at the same time: one took its request while the
\* other had not yet responded.
Concurrent(p, q) == p \in h[q].over \/ q \in h[p].over

\* C1: after any interleaving of the steps of bet creation, settlement,
\* withdrawal request, withdrawal processing, bonus grant and adjustment,
\* every wallet's balance is >= 0.
C1_BalanceNonNegative == \A w \in DOMAIN wallets : wallets[w].balance >= 0

\* A bet and a withdrawal of u1 both went through although their amounts
\* together exceed the balance the wallet started with.
C1_Witness ==
  \E p, q \in Procs :
    /\ h[p].op = "bet" /\ h[q].op = "withdraw"
    /\ Ok(p) /\ Ok(q) /\ h[p].wrote /\ h[q].wrote
    /\ h[p].amt + h[q].amt > Balance0
    /\ wallets[1].balance = 0

RECURSIVE SumCompleted(_, _)
\* The sum of the amounts of the completed entries of wallet w among the
\* first n entries of the ledger.
SumCompleted(w, n) ==
  IF n = 0 THEN 0
  ELSE SumCompleted(w, n - 1)
         + (IF transactions[n].wallet = w /\ transactions[n].status = "completed"
              THEN transactions[n].amount ELSE 0)

\* C2: at every state between two persistence steps, every wallet's balance
\* equals the sum of the amounts of its completed ledger entries.
C2_BalanceIsCompletedSum ==
  \A w \in DOMAIN wallets : wallets[w].balance = SumCompleted(w, Len(transactions))

\* C3: of N concurrent create-bet calls with the same stake S on a wallet of
\* balance B, exactly floor(B/S) succeed, the others fail with insufficient
\* balance, and the final balance is B - S * floor(B/S).
C3_ExactlyFloorSucceed ==
  (\A p \in Procs : Done(p) /\ h[p].op = "bet") =>
    LET S == h[1].amt
        B == transactions[2].amount
    IN  /\ Cardinality({p \in Procs : Ok(p)}) = B \div S
        /\ \A p \in Procs : ~Ok(p) => h[p].resp = "insufficient"
        /\ wallets[1].balance = B - S * (B \div S)

\* C4: of two concurrent settle calls on the same pending bet, exactly one
\* succeeds and the other fails with the already-settled error.
C4_OneSettleSucceeds ==
  \A p, q \in Procs :
    (/\ p # q /\ Done(p) /\ Done(q) /\ Concurrent(p, q)
     /\ h[p].op = "settle" /\ h[q].op = "settle" /\ h[p].id = h[q].id)
    => \/ h[p].resp = "ok" /\ h[q].resp = "already_settled"
       \/ h[q].resp = "ok" /\ h[p].resp = "already_settled"

WinEntries(b) ==
  {i \in DOMAIN transactions :
     /\ transactions[i].type = "win"
     /\ transactions[i].reftype = "bet"
     /\ transactions[i].ref = b}

\* C5: at most one win entry references a bet, and what the owner's wallet
\* gained on account of the bet is at most the win amount of one settle call.
C5_WinCreditedOnce ==
  /\ \A b \in DOMAIN bets : Cardinality(WinEntries(b)) <= 1
  /\ wallets[1].balance > Balance0 =>
       \E p \in Procs : h[p].op = "settle" /\ wallets[1].balance - Balance0 <= h[p].amt

\* C6: once a bet's outcome has left pending, no step changes the bet again
\* (outcome, win_amount, multiplier, settled_at).
C6_OutcomeChangesOnce ==
  [][\A b \in DOMAIN bets : bets[b].outcome # "pending" => bets'[b] = bets[b]]_vars

\* The outcome alone: once it has left pending, no step changes it.
OutcomeFrozen ==
  [][\A b \in DOMAIN bets :
       bets[b].outcome # "pending" => bets'[b].outcome = bets[b].outcome]_vars

\* Handler q took its request after handler p had responded with success.
After(q, p) ==
  /\ p < q /\ Ok(p)
  /\ h[q].pc # "idle" /\ p \notin h[q].over

\* C7: a settle call made after a settle call on the same bet has completed
\* fails with the already-settled error and writes nothing: it never gets
\* past its read of the bet.
C7_SecondSettleRefused ==
  \A p, q \in Procs :
    (/\ h[p].op = "settle" /\ h[q].op = "settle" /\ h[p].id = h[q].id
     /\ After(q, p))
    => /\ h[q].pc \in {"settle_read", "done"}
       /\ Done(q) => h[q].resp = "already_settled"

\* The held amount of withdrawal 4 reached wallet 1 at most once.
RefundedOnce == wallets[1].balance <= Balance0 + Abs(transactions[4].amount)

\* C8: of two process calls on one withdrawal at most one changes the
\* transaction or the wallet; the held amount is refunded at most once.
C8_OneProcessMutates ==
  /\ \A p, q \in Procs :
       (p # q /\ h[p].op = "process" /\ h[q].op = "process" /\ h[p].id = h[q].id)
       => ~(h[p].changed /\ h[q].changed)
  /\ RefundedOnce

\* C9: once a withdrawal is completed or rejected its status never changes.
C9_StatusChangesOnce ==
  [][\A t \in DOMAIN transactions :
       (transactions[t].type = "withdrawal" /\ transactions[t].status # "pending")
       => transactions'[t].status = transactions[t].status]_vars

\* C10: no operation is half-applied: when a handler has responded, its
\* balance change and its ledger write are both committed or both absent.
C10_NothingHalfApplied ==
  \A p \in Procs :
    (Done(p) /\ ~(h[p].op = "process" /\ h[p].sel = "approve"))
    => (h[p].wrote <=> h[p].logged)

\* Handler p served its request alone: no handler was in flight when it took
\* the request and none has taken a request since.
Alone(p) ==
  /\ h[p].pc # "idle" /\ h[p].over = {}
  /\ \A q \in Procs : q > p => h[q].pc = "idle"

\* The ledger entries of wallet w appended since the first request, and the
\* handlers whose balance update of wallet w was applied.
EntriesSince(w) ==
  {i \in DOMAIN transactions :
     i > Len(h[1].pre.transactions) /\ transactions[i].wallet = w}

BalanceWrites(w) == {p \in Procs : h[p].wrote /\ h[p].wid = w}

\* C11: in every reachable state, for every wallet, the number of balance
\* writes applied to the wallet equals the number of ledger entries appended
\* for it (counted from the first request on; deposit requests and
\* withdrawal refunds included).
C11_WritesMatchEntries ==
  h[1].pc # "idle" =>
    \A w \in DOMAIN wallets :
      Cardinality(BalanceWrites(w)) = Cardinality(EntriesSince(w))

\* The bet a create-bet call of user u with stake s in currency c inserts.
NewBet(u, s, c) ==
  [user |-> u, stake |-> s, currency |-> c, outcome |-> "pending",
   win_amount |-> 0, multiplier |-> 0, settled_at |-> 0]

\* C12: a successful create-bet call with stake S, served alone, found the
\* caller's wallet at a balance B >= S and leaves it at B - S, inserts one
\* bet (pending, stake S, win_amount 0), appends one completed bet entry of
\* -S that references the bet, returns new balance B - S, and changes
\* nothing else.
C12_BetCreated ==
  \A p \in Procs :
    (h[p].op = "bet" /\ Ok(p) /\ Alone(p)) =>
      LET u == TokenUser(h[p].actor)
          w == h[p].wid
          S == h[p].amt
          B == h[p].pre.wallets[w].balance
      IN  /\ h[p].pre.wallets[w].user = u /\ h[p].pre.wallets[w].currency = h[p].cur
          /\ B >= S
          /\ wallets = [h[p].pre.wallets EXCEPT ![w].balance = B - S]
          /\ bets = Append(h[p].pre.bets, NewBet(u, S, h[p].cur))
          /\ transactions =
               Append(h[p].pre.transactions,
                      Tx(u, w, "bet", -S, h[p].cur, "completed", Len(bets), "bet",
                         <<>>, "none"))
          /\ bonuses = h[p].pre.bonuses
          /\ BetNewBalance(p) = B - S

\* The rows of user u in currency c in a wallets table t.
WalletsIn(t, u, c) == {i \in DOMAIN t : t[i].user = u /\ t[i].currency = c}

\* C13: a create-bet call, served alone, whose stake exceeds the balance of
\* the caller's wallet fails with insufficient balance and leaves every
\* wallet, the bets, the ledger and the bonuses as they were.
C13_BetRefused ==
  \A p \in Procs :
    (/\ h[p].op = "bet" /\ Done(p) /\ Alone(p)
     /\ \E w \in DOMAIN h[p].pre.wallets :
          /\ WalletsIn(h[p].pre.wallets, TokenUser(h[p].actor), h[p].cur) = {w}
          /\ h[p].amt > h[p].pre.wallets[w].balance)
    => /\ h[p].resp = "insufficient"
       /\ Tables = h[p].pre

\* A bet of stake 2 or more on a wallet holding less, but not nothing, was
\* refused after an earlier call had completed.
C13_Witness ==
  /\ Ok(1)
  /\ h[2].op = "bet" /\ Done(2) /\ Alone(2) /\ h[2].resp = "insufficient"
  /\ h[2].pre.wallets[1].balance > 0
  /\ h[2].amt > h[2].pre.wallets[1].balance

\* C14: every successful settle call with winAmount > 0, served alone,
\* leaves the bet owner with one wallet in the bet's currency whose balance
\* is winAmount more than before (a wallet created by the call counting
\* from 0), and appends one completed win entry of +winAmount that
\* references the bet.
C14_WinCredited ==
  \A p \in Procs :
    (h[p].op = "settle" /\ Ok(p) /\ Alone(p) /\ h[p].amt > 0) =>
      LET owner == h[p].pre.bets[h[p].id].user
          c == h[p].pre.bets[h[p].id].currency
          Before(w) == IF w \in DOMAIN h[p].pre.wallets
                         THEN h[p].pre.wallets[w].balance ELSE 0
      IN  \E w \in WalletsIn(wallets, owner, c) :
            /\ wallets[w].balance = Before(w) + h[p].amt
            /\ transactions =
                 Append(h[p].pre.transactions,
                        Tx(owner, w, "win", h[p].amt, c, "completed", h[p].id,
                           "bet", <<>>, "none"))

\* The actor holds the administrator role (the role of its profile).
IsAdmin(a) == Profile(a).role = "admin"

\* C15: settle succeeds only for the bet's owner or an administrator: an
\* administrator who does not own the (pending) bet settles it, and any
\* other non-owner gets Forbidden with bets, wallets and ledger unchanged.
C15_OwnerOrAdminSettles ==
  \A p \in Procs :
    (/\ h[p].op = "settle" /\ Done(p) /\ Alone(p)
     /\ h[p].id \in DOMAIN h[p].pre.bets)
    => LET bet == h[p].pre.bets[h[p].id]
           owns == bet.user = TokenUser(h[p].actor)
       IN  /\ Ok(p) => (owns \/ IsAdmin(h[p].actor))
           /\ (IsAdmin(h[p].actor) /\ ~owns /\ bet.outcome = "pending") => Ok(p)
           /\ (~IsAdmin(h[p].actor) /\ ~owns) =>
                (h[p].resp = "forbidden" /\ Tables = h[p].pre)

\* The wallet read of handler p returned an error: the handler answered
\* that there is no wallet although the request found exactly one.
ReadFailed(p) == h[p].resp = "wallet_not_found"

\* C16: a withdrawal request of amount A, served alone on a wallet of
\* balance B: when it succeeds, B >= A, the balance is B - A and one pending
\* withdrawal entry of -A has been appended; when A > B it fails with
\* insufficient balance, balance and ledger unchanged.
C16_WithdrawalHeld ==
  \A p \in Procs :
    \A w \in DOMAIN h[p].pre.wallets :
      (/\ h[p].op = "withdraw" /\ Done(p) /\ Alone(p)
       /\ WalletsIn(h[p].pre.wallets, TokenUser(h[p].actor), h[p].cur) = {w})
      => LET A == h[p].amt
             B == h[p].pre.wallets[w].balance
         IN  /\ Ok(p) =>
                  /\ B >= A
                  /\ wallets = [h[p].pre.wallets EXCEPT ![w].balance = B - A]
                  /\ transactions =
                       Append(h[p].pre.transactions,
                              Tx(TokenUser(h[p].actor), w, "withdrawal", -A, h[p].cur,
                                 "pending", 0, "none", <<"withdrawal">>, "none"))
             /\ A > B =>
                  /\ h[p].resp = "insufficient" \/ ReadFailed(p)
                  /\ Tables = h[p].pre

\* Entry i of a ledger t is a pending withdrawal.
PendingWithdrawalIn(t, i) ==
  i \in DOMAIN t /\ t[i].type = "withdrawal" /\ t[i].status = "pending"

\* C17: a successful process(reject), served alone, of a pending withdrawal
\* of amount A increases the balance of its wallet by exactly A, changes no
\* other wallet and marks the transaction rejected; when the withdrawal was
\* requested by the call just before, also served alone, the balance is
\* back at what it was before the request.
C17_RejectRoundTrip ==
  \A p \in Procs :
    (/\ h[p].op = "process" /\ h[p].sel = "reject" /\ Ok(p) /\ Alone(p)
     /\ PendingWithdrawalIn(h[p].pre.transactions, h[p].id))
    => LET t == h[p].pre.transactions[h[p].id]
           w == t.wallet
           A == Abs(t.amount)
       IN  /\ wallets = [h[p].pre.wallets EXCEPT ![w].balance = @ + A]
           /\ transactions[h[p].id].status = "rejected"
           /\ \A q \in Procs :
                (/\ q + 1 = p /\ h[q].op = "withdraw" /\ Ok(q) /\ h[q].over = {}
                 /\ h[q].id = h[p].id)
                => wallets[w].balance = h[q].pre.wallets[w].balance

\* C18: a successful process(approve), served alone, of a pending
\* withdrawal leaves the transaction completed and every wallet as it was.
C18_ApproveCompletes ==
  \A p \in Procs :
    (/\ h[p].op = "process" /\ h[p].sel = "approve" /\ Ok(p) /\ Alone(p)
     /\ PendingWithdrawalIn(h[p].pre.transactions, h[p].id))
    => /\ transactions[h[p].id].status = "completed"
       /\ wallets = h[p].pre.wallets

\* Approve changes no wallet, whatever runs beside it and whether or not
\* its update succeeds: a step of an approve call leaves the wallets alone.
ApproveKeepsWallets ==
  [][(\E p \in Procs : h[p].op = "process" /\ h[p].sel = "approve"
                        /\ h'[p] # h[p]) => wallets' = wallets]_vars

\* C19: a process call, served alone, on a transaction that does not exist,
\* is not a withdrawal or is not pending fails with not-found and leaves
\* every transaction and wallet (and bet and bonus) as it was.
C19_ProcessRefused ==
  \A p \in Procs :
    (/\ h[p].op = "process" /\ Done(p) /\ Alone(p)
     /\ h[p].resp \notin {"admin_required", "invalid"}
     /\ ~PendingWithdrawalIn(h[p].pre.transactions, h[p].id))
    => /\ h[p].resp = "not_found"
       /\ Tables = h[p].pre

\* A reject of withdrawal 4 was refused after an approve of it had
\* completed, and the pending deposit 1 is still pending.
C19_Witness ==
  /\ h[1].op = "process" /\ h[1].sel = "approve" /\ h[1].id = 4 /\ Ok(1)
  /\ h[2].op = "process" /\ h[2].sel = "reject" /\ h[2].id = 4
  /\ Done(2) /\ Alone(2) /\ h[2].resp = "not_found"
  /\ transactions[4].status = "completed"
  /\ wallets = h[2].pre.wallets

\* C20: a successful bonus grant of amount A, served alone, stores one
\* bonus; with wagering requirement 0 the bonus is claimed, the user's
\* wallet (created at 0 if there was none) holds A more than before, no
\* other balance changes, and one completed bonus entry of +A that
\* references the bonus is appended; with a wagering requirement > 0 the
\* bonus is pending, no balance changes and no entry is appended.
C20_BonusGranted ==
  \A p \in Procs :
    (h[p].op = "bonus" /\ Ok(p) /\ Alone(p)) =>
      LET u == h[p].user
          A == h[p].amt
          Before(w) == IF w \in DOMAIN h[p].pre.wallets
                         THEN h[p].pre.wallets[w].balance ELSE 0
          Stored(st) ==
            bonuses = Append(h[p].pre.bonuses,
                             [user |-> u, amount |-> A, currency |-> h[p].cur,
                              wagering_requirement |-> h[p].wr,
                              wagering_progress |-> 0, status |-> st])
      IN  /\ h[p].wr = 0 =>
               /\ Stored("claimed")
               /\ \E w \in WalletsIn(wallets, u, h[p].cur) :
                    /\ \A v \in DOMAIN wallets :
                         wallets[v].balance = Before(v) + (IF v = w THEN A ELSE 0)
                    /\ transactions =
                         Append(h[p].pre.transactions,
                                Tx(u, w, "bonus", A, h[p].cur, "completed",
                                   Len(bonuses), "bonus", <<"reason">>,
                                   TokenUser(h[p].actor)))
          /\ h[p].wr > 0 =>
               /\ Stored("pending")
               /\ \A v \in DOMAIN wallets : wallets[v].balance = Before(v)
               /\ transactions = h[p].pre.transactions

\* The ledger entries that reference bonus b.
BonusEntries(b) ==
  {i \in DOMAIN transactions :
     transactions[i].reftype = "bonus" /\ transactions[i].ref = b}

\* C21: a bonus is credited at most once: at most one ledger entry
\* references a bonus record; every entry that references a bonus is a
\* bonus-kind entry of that bonus's amount for that bonus's user, and the
\* bonus is a claimed one; and the balance writes of two grants are never
\* on account of the same bonus.
C21_BonusCreditedOnce ==
  /\ \A b \in DOMAIN bonuses : Cardinality(BonusEntries(b)) <= 1
  /\ \A i \in DOMAIN transactions :
       transactions[i].reftype = "bonus" =>
         /\ transactions[i].ref \in DOMAIN bonuses
         /\ transactions[i].type = "bonus"
         /\ bonuses[transactions[i].ref].status = "claimed"
         /\ bonuses[transactions[i].ref].amount = transactions[i].amount
         /\ bonuses[transactions[i].ref].user = transactions[i].user
  /\ \A p, q \in Procs :
       (p # q /\ h[p].op = "bonus" /\ h[q].op = "bonus" /\ h[p].wrote /\ h[q].wrote)
       => h[p].id # h[q].id

\* Two grants without wagering requirement ran at the same time, both
\* credited the wallet and both logged the credit.
C21_Witness ==
  /\ h[1].op = "bonus" /\ h[2].op = "bonus" /\ Concurrent(1, 2)
  /\ Ok(1) /\ Ok(2) /\ h[1].wrote /\ h[2].wrote /\ h[1].logged /\ h[2].logged
  /\ Cardinality(BonusEntries(1)) = 1 /\ Cardinality(BonusEntries(2)) = 1

\* C22: an adjustment, served alone, whose signed amount would take the
\* balance of the wallet below 0 fails (insufficient balance for deduction,
\* or wallet not found when the wallet could not be read) and leaves every
\* wallet and the ledger (and bets and bonuses) as they were.
C22_AdjustRefused ==
  \A p \in Procs :
    (/\ h[p].op = "adjust" /\ Done(p) /\ Alone(p)
     /\ h[p].resp \notin {"admin_required", "invalid"}
     /\ h[p].id \in DOMAIN h[p].pre.wallets
     /\ h[p].pre.wallets[h[p].id].balance + h[p].amt < 0)
    => /\ h[p].resp \in {"insufficient", "wallet_not_found"}
       /\ Tables = h[p].pre

\* A deduction larger than a balance that is not 0 was refused after an
\* earlier call had completed.
C22_Witness ==
  /\ Ok(1)
  /\ h[2].op = "adjust" /\ Done(2) /\ Alone(2) /\ h[2].resp = "insufficient"
  /\ h[2].pre.wallets[1].balance > 0
  /\ wallets[1].balance = h[2].pre.wallets[1].balance

\* C23: a successful adjustment by D, served alone, changes the balance of
\* the wallet by exactly D and appends exactly one completed entry of kind
\* adjustment and amount D that carries the non-empty reason and the
\* identity of the administrator, whatever the accepted request says, and
\* changes nothing else.
C23_AdjustApplied ==
  \A p \in Procs :
    (h[p].op = "adjust" /\ Ok(p) /\ Alone(p)) =>
      LET w == h[p].id
          D == h[p].amt
          old == h[p].pre.wallets[w]
      IN  /\ wallets = [h[p].pre.wallets EXCEPT ![w].balance = old.balance + D]
          /\ h[p].notes # <<"">>
          /\ IsAdmin(h[p].actor)
          /\ transactions =
               Append(h[p].pre.transactions,
                      Tx(old.user, w, "adjustment", D, old.currency, "completed",
                         0, "none", h[p].notes, TokenUser(h[p].actor)))
          /\ bets = h[p].pre.bets /\ bonuses = h[p].pre.bonuses

\* C24: an adjustment request of an administrator without a reason is
\* rejected as a validation failure on entry: its handler never stands at a
\* read or a write, and when it was served alone the tables are as they
\* were.
C24_ReasonRequired ==
  \A p \in Procs :
    (h[p].op = "adjust" /\ h[p].notes = <<"">> /\ IsAdmin(h[p].actor)) =>
      /\ Done(p) /\ h[p].resp = "invalid"
      /\ ~h[p].wrote /\ ~h[p].logged
      /\ Alone(p) => Tables = h[p].pre

\* After an adjustment that went through, one without a reason was
\* rejected although its amount alone would have been accepted.
C24_Witness ==
  /\ h[1].op = "adjust" /\ Ok(1) /\ h[1].amt # 0
  /\ h[2].op = "adjust" /\ h[2].notes = <<"">> /\ Alone(2)
  /\ h[2].resp = "invalid"
  /\ ~AdjustRefused(wallets[1].balance, h[2].amt)

AdminOnly == {"process", "adjust", "bonus"}

\* C25: a request to process a withdrawal, to adjust a wallet or to grant a
\* bonus by a caller who is not an administrator is rejected on entry (admin
\* access required, or authentication required without a valid token): its
\* handler never stands at a read or a write, and when it was served alone
\* the tables are as they were.
C25_AdminOnly ==
  \A p \in Procs :
    (h[p].op \in AdminOnly /\ ~IsAdmin(h[p].actor)) =>
      /\ Done(p)
      /\ h[p].resp =
           (IF h[p].actor \in Actors THEN "admin_required" ELSE "unauthenticated")
      /\ ~h[p].wrote /\ ~h[p].logged /\ ~h[p].changed
      /\ Alone(p) => Tables = h[p].pre

\* After an adjustment of the administrator went through, a player was
\* refused each of the three operations.
C25_Witness ==
  /\ h[1].op = "adjust" /\ Ok(1) /\ h[1].amt > 0
  /\ h[2].op \in AdminOnly /\ h[2].actor \in Players /\ Alone(2)
  /\ h[2].resp = "admin_required"
  /\ Tables = h[2].pre

\* C26: in every reachable state there is at most one wallet per (user,
\* currency), also after concurrent get-or-create steps of deposit requests
\* and bonus grants for a pair without a wallet.
C26_OneWalletPerPair ==
  \A i, j \in DOMAIN wallets :
    (wallets[i].user = wallets[j].user /\ wallets[i].currency = wallets[j].currency)
    => i = j

\* C27: a create-bet call, served alone, of a user who has no wallet in the
\* requested currency creates a wallet with balance 0 for the pair and then
\* fails with insufficient balance (not with wallet not found), creating no
\* bet and no ledger entry.
C27_BetCreatesWallet ==
  \A p \in Procs :
    (/\ h[p].op = "bet" /\ Done(p) /\ Alone(p) /\ h[p].resp # "invalid"
     /\ WalletsIn(h[p].pre.wallets, TokenUser(h[p].actor), h[p].cur) = {})
    => /\ h[p].resp = "insufficient"
       /\ wallets = Append(h[p].pre.wallets,
                           [user |-> TokenUser(h[p].actor), currency |-> h[p].cur,
                            balance |-> 0])
       /\ bets = h[p].pre.bets
       /\ transactions = h[p].pre.transactions

\* C28: ledger entries are immutable except for the status of pending
\* withdrawals: no step removes an entry or changes a field other than
\* status of an existing entry (amount, kind, wallet, notes, administrator
\* stay as inserted), and a step changes the status only of a withdrawal
\* entry that is pending.
C28_LedgerImmutable ==
  [][\A i \in DOMAIN transactions :
       /\ i \in DOMAIN transactions'
       /\ [transactions'[i] EXCEPT !.status = transactions[i].status] = transactions[i]
       /\ transactions'[i].status # transactions[i].status =>
            (transactions[i].type = "withdrawal" /\ transactions[i].status = "pending")
    ]_vars

\* C29: in every reachable state every bet's outcome is one of pending, win
\* and loss; every successful settle call, served alone, leaves the bet at
\* win or loss, whatever outcome the accepted request carries; so no settle
\* call succeeds on a bet after an earlier one has succeeded on it.
C29_OutcomeTerminal ==
  /\ \A b \in DOMAIN bets : bets[b].outcome \in {"pending", "win", "loss"}
  /\ \A p \in Procs :
       (h[p].op = "settle" /\ Ok(p) /\ Alone(p)) =>
         bets[h[p].id].outcome \in {"win", "loss"}
  /\ \A p, q \in Procs :
       (/\ p # q /\ h[p].op = "settle" /\ h[q].op = "settle" /\ h[p].id = h[q].id
        /\ Ok(p) /\ Ok(q))
       => Concurrent(p, q)

TakesAmount == {"bet", "withdraw", "deposit", "bonus"}

\* C30: a create-bet, withdrawal, deposit or bonus request with an amount
\* <= 0 is rejected as a validation error on entry: its handler never stands
\* at a persistence step, it creates or changes nothing, and when it was
\* served alone wallets, bets, bonuses and ledger are as they were.
C30_AmountPositive ==
  \A p \in Procs :
    (h[p].op \in TakesAmount /\ h[p].amt <= 0) =>
      /\ Done(p) /\ h[p].resp = "invalid"
      /\ ~h[p].wrote /\ ~h[p].logged /\ ~h[p].changed
      /\ Alone(p) => Tables = h[p].pre

\* After a deposit request that went through, a bet of stake 0 was
\* rejected.
C30_Witness ==
  /\ h[1].op = "deposit" /\ Ok(1)
  /\ h[2].op = "bet" /\ h[2].amt = 0 /\ Alone(2) /\ h[2].resp = "invalid"
  /\ Tables = h[2].pre

\* The signed amount by which the call of handler p, having reported
\* success, is to have changed the balance of wallet 1 (the USD wallet of
\* u1).
Effect(p) ==
  IF h[p].op = "bet" /\ h[p].actor = "u1" THEN -h[p].amt
  ELSE IF h[p].op = "settle" /\ h[p].amt > 0 THEN h[p].amt
  ELSE IF h[p].op = "withdraw" /\ h[p].actor = "u1" THEN -h[p].amt
  ELSE IF h[p].op = "process" /\ h[p].sel = "reject" THEN Abs(h[p].amt)
  ELSE IF h[p].op = "adjust" THEN h[p].amt
  ELSE IF h[p].op = "bonus" /\ h[p].user = "u1" /\ h[p].wr = 0 THEN h[p].amt
  ELSE 0

RECURSIVE SumEffects(_)
\* The sum of the effects of the handlers of S that reported success.
SumEffects(S) ==
  IF S = {} THEN 0
  ELSE LET p == CHOOSE q \in S : TRUE
       IN  (IF Ok(p) THEN Effect(p) ELSE 0) + SumEffects(S \ {p})

\* C31: no update is lost: once all calls have finished, the balance of the
\* wallet equals its initial balance plus the sum of the signed amounts of
\* exactly the operations that reported success, however their steps
\* interleaved.
C31_NoLostUpdate ==
  (\A p \in Procs : Done(p)) =>
    wallets[1].balance = Balance0 + SumEffects(Procs)

RECURSIVE SumHeld(_, _)
\* The sum of the amounts of the entries of wallet w, among the first n of
\* the ledger, that are completed or are pending withdrawals.
SumHeld(w, n) ==
  IF n = 0 THEN 0
  ELSE SumHeld(w, n - 1)
         + (IF /\ transactions[n].wallet = w
               /\ \/ transactions[n].status = "completed"
                  \/ /\ transactions[n].status = "pending"
                     /\ transactions[n].type = "withdrawal"
              THEN transactions[n].amount ELSE 0)

\* C32: when operations run one at a time and no persistence call fails,
\* then between operations the balance of every wallet equals the sum of
\* the amounts of its entries that are completed or pending withdrawals.
C32_SerialBalance ==
  InFlight = {} =>
    \A w \in DOMAIN wallets : wallets[w].balance = SumHeld(w, Len(transactions))

\* A withdrawal was requested and then rejected, and a bet was placed, one
\* after the other.
C32_Witness ==
  /\ h[1].op = "withdraw" /\ Ok(1)
  /\ h[2].op = "process" /\ h[2].sel = "reject" /\ h[2].id = 5 /\ Ok(2)
  /\ h[3].op = "bet" /\ Ok(3)
  /\ wallets[1].balance = SumHeld(1, Len(transactions))

\* C33: a successful settle call, served alone, with win_amount <= 0 changes
\* no wallet and appends no ledger entry; it only stamps the bet's outcome,
\* win_amount, multiplier and settled_at.
C33_LossStampsOnly ==
  \A p \in Procs :
    (h[p].op = "settle" /\ Ok(p) /\ Alone(p) /\ h[p].amt <= 0) =>
      /\ wallets = h[p].pre.wallets
      /\ transactions = h[p].pre.transactions
      /\ bonuses = h[p].pre.bonuses
      /\ bets = [h[p].pre.bets EXCEPT ![h[p].id] =
                   [@ EXCEPT !.outcome = h[p].sel, !.win_amount = h[p].amt,
                             !.multiplier = h[p].mult,
                             !.settled_at = bets[h[p].id].settled_at]]

\* A loss with a negative win_amount was stamped on the bet.
C33_Witness ==
  /\ h[1].op = "settle" /\ Ok(1) /\ Alone(1) /\ h[1].amt < 0
  /\ bets[1].outcome = "loss" /\ bets[1].win_amount = h[1].amt
  /\ wallets = h[1].pre.wallets /\ transactions = h[1].pre.transactions

\* C34: once the grants have finished, a bonus has status claimed if and
\* only if the wallet was credited for it, that is, a completed bonus entry
\* of the ledger references it, whatever wagering_requirement the accepted
\* request carries.
C34_ClaimedIffCredited ==
  InFlight = {} =>
    \A b \in DOMAIN bonuses :
      bonuses[b].status = "claimed" <=>
        \E i \in BonusEntries(b) :
          transactions[i].type = "bonus" /\ transactions[i].status = "completed"

\* What a successful deposit request, served alone, leaves behind: no
\* balance changed, a wallet of balance 0 created only when the pair had
\* none, and one pending deposit entry of the amount appended.
DepositDone ==
  \A p \in Procs :
    (h[p].op = "deposit" /\ Ok(p) /\ Alone(p)) =>
      LET u == TokenUser(h[p].actor)
          had == WalletsIn(h[p].pre.wallets, u, h[p].cur)
      IN  /\ wallets =
               IF had = {}
                 THEN Append(h[p].pre.wallets,
                             [user |-> u, currency |-> h[p].cur, balance |-> 0])
                 ELSE h[p].pre.wallets
          /\ \E w \in WalletsIn(wallets, u, h[p].cur) :
               transactions =
                 Append(h[p].pre.transactions,
                        Tx(u, w, "deposit", h[p].amt, h[p].cur, "pending", 0, "none",
                           <<"deposit">>, "none"))
          /\ h[p].amt > 0
          /\ bets = h[p].pre.bets /\ bonuses = h[p].pre.bonuses

\* C35: a deposit request never changes a wallet balance: it only creates a
\* wallet of balance 0 if the (user, currency) pair has none and inserts one
\* pending deposit entry of the positive amount (no step of a deposit
\* handler changes the balance of a wallet); and no step of any operation
\* changes a pending deposit entry.
C35_DepositPending ==
  [][/\ DepositDone'
     /\ \A i \in DOMAIN transactions :
          (transactions[i].type = "deposit" /\ transactions[i].status = "pending")
          => (i \in DOMAIN transactions' /\ transactions'[i] = transactions[i])
     /\ \A p \in Procs :
          (h'[p] # h[p] /\ h'[p].op = "deposit") =>
            \A w \in DOMAIN wallets : wallets'[w].balance = wallets[w].balance
    ]_vars

\* Wallet w is the wallet the operation of handler p targets.
Targets(p, w) ==
  IF h[p].op \in {"bet", "withdraw"}
    THEN wallets[w].user = TokenUser(h[p].actor) /\ wallets[w].currency = h[p].cur
  ELSE IF h[p].op = "settle"
    THEN /\ wallets[w].user = bets[h[p].id].user
         /\ wallets[w].currency = bets[h[p].id].currency
  ELSE IF h[p].op = "process" THEN w = transactions[h[p].id].wallet
  ELSE IF h[p].op = "adjust" THEN w = h[p].id
  ELSE IF h[p].op = "bonus"
    THEN wallets[w].user = h[p].user /\ wallets[w].currency = h[p].cur
  ELSE FALSE

\* C36: each money-moving operation changes the balance of at most one
\* wallet, the one it targets: every step changes the balance of at most
\* one wallet, that wallet is the target of the handler taking the step,
\* and no wallet is removed.
C36_OnlyTargetChanges ==
  [][/\ \A w \in DOMAIN wallets : w \in DOMAIN wallets'
     /\ \A w \in DOMAIN wallets :
          wallets'[w].balance # wallets[w].balance =>
            /\ \E p \in Procs : h'[p] # h[p] /\ Targets(p, w)
            /\ \A v \in DOMAIN wallets :
                 v # w => wallets'[v].balance = wallets[v].balance
            /\ wallets'[w].user = wallets[w].user
            /\ wallets'[w].currency = wallets[w].currency
    ]_vars

\* A bonus was credited to the wallet of u2 and a bet debited the wallet of
\* u1, each leaving the other wallet alone.
C36_Witness ==
  /\ h[1].op = "bonus" /\ h[1].user = "u2" /\ Ok(1) /\ h[1].wrote /\ h[1].wid = 2
  /\ h[2].op = "bet" /\ h[2].actor = "u1" /\ Ok(2) /\ h[2].wrote /\ h[2].wid = 1
  /\ wallets[2].balance = h[1].amt
  /\ wallets[1].balance = Balance0 - h[2].amt

\* Handler p has sent its response.
Responded(p) == Done(p) /\ h[p].resp # "none"

\* C37: every invocation of create bet, settle, withdrawal request,
\* withdrawal processing, bonus grant and adjustment eventually ends with a
\* response, provided every persistence call returns; a response is sent
\* only on ending, and once it is sent the handler does nothing more, so no
\* path sends two responses or none.
C37_Terminates ==
  /\ \A p \in Pair : (h[p].pc # "idle") ~> Responded(p)
  /\ [](\A p \in Pair : h[p].resp # "none" => Done(p))
  /\ [][\A p \in Pair : h[p].resp # "none" => h'[p] = h[p]]_vars

\* A rejection whose wallet read failed and a bet whose wallet update failed
\* have both ended with a response.
C37_Witness ==
  /\ h[1].op = "process" /\ h[1].sel = "reject" /\ Responded(1) /\ ~h[1].wrote
  /\ h[2].op = "bet" /\ Responded(2) /\ h[2].resp = "failed"

\* The caller has a token that verifies to a user whose profile exists and
\* is active.
Admitted(a) ==
  /\ TokenUser(a) # "none"
  /\ Profile(TokenUser(a)).found
  /\ Profile(TokenUser(a)).is_active

\* C38: no mutating operation runs for an unauthenticated or deactivated
\* actor: the request of a caller without a token that verifies to a user
\* with an existing, active profile is answered on entry, with 401
\* (unauthenticated) or, for a profile that is not active, 403
\* (deactivated); its handler never stands at a persistence step and, when
\* it was served alone, wallets, bets, bonuses and ledger are as they were.
C38_AuthenticatedOnly ==
  \A p \in Procs :
    (h[p].pc # "idle" /\ ~Admitted(h[p].actor)) =>
      /\ Done(p)
      /\ h[p].resp =
           (IF TokenUser(h[p].actor) # "none" /\ Profile(h[p].actor).found
              THEN "deactivated" ELSE "unauthenticated")
      /\ ~h[p].wrote /\ ~h[p].logged /\ ~h[p].changed
      /\ Alone(p) => Tables = h[p].pre

\* After a bet of u1 went through, a withdrawal request of the caller whose
\* profile is not active was refused.
C38_Witness ==
  /\ h[1].op = "bet" /\ Ok(1)
  /\ h[2].op = "withdraw" /\ h[2].actor = "d1" /\ Alone(2)
  /\ h[2].resp = "deactivated"
  /\ Tables = h[2].pre

====
